---- MODULE Spec2Model ----
(***************************************************************************)
(* PrimeTime playback synchronisation engine.                              *)
(*                                                                         *)
(* The model follows src/playback.py (PlaybackManager), the persistence    *)
(* helpers of src/database.py and the SocketIO handlers of                 *)
(* src/routes/websocket.py.  Every handler is one action.  The methods of  *)
(* PlaybackManager are operators over the pair (manager fields, database)  *)
(* that return the pair after the call, with the return value where the    *)
(* method has one.                                                         *)
(*                                                                         *)
(* Time: time.time() * 1000 is a float number of milliseconds.  The clock  *)
(* of the model counts ticks of 1/TicksPerMs ms, so that the int()         *)
(* truncation of get_current_timecode is a real truncation.                *)
(*                                                                         *)
(* Of a timeline row the model keeps timeline_json and is_active, of the   *)
(* playback_state row timeline_id, current_index, timecode_ms and          *)
(* is_playing; the names, themes, notes and the created_at / updated_at    *)
(* timestamps are written by the code and read by none of the operations   *)
(* modelled here.                                                          *)
(***************************************************************************)
EXTENDS Integers, Sequences, FiniteSets, TLC

----------------------------------------------------------------------------
(* Bounds of the model *)

\* Largest number of items of a timeline definition.
MaxItems == 2

\* The clock runs from 0 to MaxClock ticks.
MaxClock == 2

\* Clock ticks per millisecond.
TicksPerMs == 2

\* Largest timecodeMs a show view reports in SHOW_STATUS.
MaxStatusTimecode == 1

----------------------------------------------------------------------------
(* Values *)

\* Python's None, and a value that is not None.  An optional value is a
\* sequence of length 0 or 1.
None == <<>>

Some(v) == <<v>>

Val(o) == o[1]

\* A field of a message that may be missing: data.get(key) is then None.
Optional(S) == {None} \cup {Some(v) : v \in S}

\* A timeline definition as the operator UI sends it: a dict with a name
\* and a list of items (opaque payloads, here numbered).
TimelineDef(k) == [name |-> "show", items |-> [i \in 1..k |-> i]]

\* The definitions the operator UI sends: no item, one item, MaxItems items.
TimelineDefs == {TimelineDef(k) : k \in {0, 1, MaxItems}}

\* json.dumps / json.loads of a timeline dict.
json_dumps(data) == <<"json", data>>

json_loads(str) == str[2]

\* Session ids of the two namespaces.
ControlSids == {"c1"}

ShowSids == {"s1", "s2"}

\* The index field of CONTROL_PLAY / CONTROL_JUMP, when present: negative,
\* the first item, the last item of the longest timeline, and beyond it.
Indices == {-1, 0, MaxItems - 1, MaxItems}

\* The delta argument of CONTROL_SKIP.
Deltas == {-(MaxItems + 1), -1, 0, 1, MaxItems + 1}

\* The timecodeMs field of SHOW_STATUS, when present.
StatusTimecodes == {-1, MaxStatusTimecode}

VARIABLES
    playback_manager,   \* the PlaybackManager instance (its fields)
    db,                 \* the database: playback_state row and timelines table
    connected_clients,  \* namespace -> set of session ids
    now,                \* the clock, in ticks
    emitted,            \* the messages the last step emitted, in order
    lastOp,             \* the last handler that ran: its name and result
    threads             \* the position and locals of a thread inside a method

vars ==
    <<playback_manager, db, connected_clients, now, emitted, lastOp, threads>>

----------------------------------------------------------------------------
(* src/playback.py *)

\* PlaybackManager.__init__
PlaybackManager ==
    [current_timeline    |-> None,
     current_index       |-> 0,
     timecode_ms         |-> 0,
     is_playing          |-> FALSE,
     playback_start_time |-> None,
     initial_offset_ms   |-> 0,
     state               |-> "IDLE",
     _initialized        |-> FALSE]

\* The dict is truthy and has a non-empty 'items' list: the negation of
\* "not self.current_timeline or not self.current_timeline.get('items')".
HasItems(p) ==
    /\ p.current_timeline # None
    /\ Len(Val(p.current_timeline).items) > 0

\* len(self.current_timeline['items'])
NumItems(p) == Len(Val(p.current_timeline).items)

\* int(x) of a float x given in ticks: truncation toward zero.
IntOfTicks(n) ==
    IF n >= 0 THEN n \div TicksPerMs ELSE -((-n) \div TicksPerMs)

\* PlaybackManager.get_current_timecode, read at clock t
get_current_timecode(p, t) ==
    IF ~p.is_playing \/ p.playback_start_time = None
    THEN p.timecode_ms
    ELSE IntOfTicks(p.initial_offset_ms * TicksPerMs
                    + (t - Val(p.playback_start_time)))

\* The IndexError a list raises, as the result of the call.
IndexError == <<"IndexError", "raised">>

\* PlaybackManager.get_current_item
\* A negative index counts from the end of a Python list, and one below
\* -len raises IndexError.
get_current_item(p) ==
    IF ~HasItems(p) THEN None
    ELSE IF p.current_index < NumItems(p)
         THEN IF p.current_index >= 0
              THEN Some(Val(p.current_timeline).items[p.current_index + 1])
              ELSE IF p.current_index >= -NumItems(p)
                   THEN Some(Val(p.current_timeline).items[
                                NumItems(p) + p.current_index + 1])
                   ELSE IndexError
         ELSE None

----------------------------------------------------------------------------
(* src/database.py *)

\* The database after init_db: the playback_state row with its column
\* defaults, and no timeline.
init_db ==
    [playback_state |-> [timeline_id   |-> None,
                         current_index |-> 0,
                         timecode_ms   |-> 0,
                         is_playing    |-> FALSE],
     timelines      |-> <<>>]

\* get_active_timeline: the id of the first active timeline, or None.
get_active_timeline(d) ==
    LET active == {i \in 1..Len(d.timelines) : d.timelines[i].is_active}
    IN  IF active = {} THEN None
        ELSE Some(CHOOSE i \in active : \A j \in active : i <= j)

\* get_playback_state
get_playback_state(d) == d.playback_state

\* update_playback_state
update_playback_state(d, timeline_id, current_index, timecode_ms, is_playing) ==
    [d EXCEPT !.playback_state =
        [timeline_id   |-> timeline_id,
         current_index |-> current_index,
         timecode_ms   |-> timecode_ms,
         is_playing    |-> is_playing]]

\* create_timeline: a new row, its id the next of the table.
create_timeline(d, timeline_json, is_active) ==
    [d EXCEPT !.timelines =
        Append(@, [timeline_json |-> timeline_json, is_active |-> is_active])]

----------------------------------------------------------------------------
(* src/playback.py, the methods.  p: the manager, d: the database,         *)
(* t: the clock at the call.                                               *)

\* PlaybackManager.save_state_to_db
save_state_to_db(p, d) ==
    update_playback_state(d,
        IF p.current_timeline # None THEN get_active_timeline(d) ELSE None,
        p.current_index, p.timecode_ms, p.is_playing)

\* PlaybackManager.load_state_from_db
load_state_from_db(p, d) ==
    LET state == get_playback_state(d)
        p1 == [p EXCEPT !.current_index = state.current_index,
                        !.timecode_ms   = state.timecode_ms,
                        !.is_playing    = state.is_playing]
    IN  IF state.timeline_id # None
           /\ Val(state.timeline_id) \in 1..Len(d.timelines)
        THEN [p1 EXCEPT !.current_timeline = Some(json_loads(
                 d.timelines[Val(state.timeline_id)].timeline_json))]
        ELSE p1

\* PlaybackManager.ensure_initialized (handlers run with an app context)
ensure_initialized(p, d) ==
    IF ~p._initialized
    THEN [load_state_from_db(p, d) EXCEPT !._initialized = TRUE]
    ELSE p

\* load_timeline that does not persist the reset position.
load_timeline_no_save(p, d, timeline_data) ==
    LET p1 == [p EXCEPT !.current_timeline = Some(timeline_data),
                        !.current_index    = 0,
                        !.timecode_ms      = 0,
                        !.is_playing       = FALSE,
                        !.state            = "LOADING"]
    IN  [pm |-> p1, db |-> d]

\* load_timeline that leaves is_playing as it was.
load_timeline_keeps_playing(p, d, timeline_data) ==
    LET p1 == [p EXCEPT !.current_timeline = Some(timeline_data),
                        !.current_index    = 0,
                        !.timecode_ms      = 0,
                        !.state            = "LOADING"]
    IN  [pm |-> p1, db |-> save_state_to_db(p1, d)]

\* PlaybackManager.load_timeline, given a dict
load_timeline(p, d, timeline_data) ==
    LET p1 == [p EXCEPT !.current_timeline = Some(timeline_data),
                        !.current_index    = 0,
                        !.timecode_ms      = 0,
                        !.is_playing       = FALSE,
                        !.state            = "LOADING"]
    IN  [pm |-> p1, db |-> save_state_to_db(p1, d)]

\* PlaybackManager.play
play(p, d, index, t) ==
    LET p1 == IF index # None
              THEN [p EXCEPT !.current_index = Val(index), !.timecode_ms = 0]
              ELSE p
    IN  IF ~HasItems(p1)
        THEN [pm |-> p1, db |-> d, ret |-> FALSE]
        ELSE IF p1.current_index >= NumItems(p1)
        THEN [pm |-> p1, db |-> d, ret |-> FALSE]
        ELSE LET p2 == [p1 EXCEPT !.playback_start_time = Some(t),
                                  !.initial_offset_ms   = p1.timecode_ms,
                                  !.is_playing          = TRUE,
                                  !.state               = "PLAYING"]
             IN  [pm |-> p2, db |-> save_state_to_db(p2, d), ret |-> TRUE]

\* pause without line 113: the live timecode is not frozen.
pause_no_freeze(p, d, t) ==
    IF p.is_playing
    THEN LET p1 == [p EXCEPT !.is_playing          = FALSE,
                             !.state               = "PAUSED",
                             !.playback_start_time = None]
         IN  [pm |-> p1, db |-> save_state_to_db(p1, d)]
    ELSE [pm |-> p, db |-> d]

\* pause without the test of line 111: it pauses and saves in every state.
pause_always(p, d, t) ==
    LET p1 == [p EXCEPT !.timecode_ms         = get_current_timecode(p, t),
                        !.is_playing          = FALSE,
                        !.state               = "PAUSED",
                        !.playback_start_time = None]
    IN  [pm |-> p1, db |-> save_state_to_db(p1, d)]

\* PlaybackManager.pause
pause(p, d, t) ==
    IF p.is_playing
    THEN LET p1 == [p EXCEPT !.timecode_ms         = get_current_timecode(p, t),
                             !.is_playing          = FALSE,
                             !.state               = "PAUSED",
                             !.playback_start_time = None]
         IN  [pm |-> p1, db |-> save_state_to_db(p1, d)]
    ELSE [pm |-> p, db |-> d]

\* jump without lines 137-138: playback is not resumed.
jump_no_resume(p, d, index, t) ==
    IF ~HasItems(p)
    THEN [pm |-> p, db |-> d, ret |-> FALSE]
    ELSE IF index < 0 \/ index >= NumItems(p)
    THEN [pm |-> p, db |-> d, ret |-> FALSE]
    ELSE LET paused == pause(p, d, t)
             p2 == [paused.pm EXCEPT !.current_index = index,
                                     !.timecode_ms   = 0,
                                     !.state         = "LOADING"]
         IN  [pm |-> p2, db |-> save_state_to_db(p2, paused.db), ret |-> TRUE]

\* jump that pauses before lines 124-129 validate the index.
jump_pauses_first(p, d, index, t) ==
    LET was_playing == p.is_playing
        paused == pause(p, d, t)
    IN  IF ~HasItems(p)
        THEN [pm |-> paused.pm, db |-> paused.db, ret |-> FALSE]
        ELSE IF index < 0 \/ index >= NumItems(p)
        THEN [pm |-> paused.pm, db |-> paused.db, ret |-> FALSE]
        ELSE LET p1 == [paused.pm EXCEPT !.current_index = index,
                                         !.timecode_ms   = 0]
             IN  IF was_playing
                 THEN LET played == play(p1, paused.db, None, t)
                      IN  [pm |-> played.pm, db |-> played.db, ret |-> TRUE]
                 ELSE LET p2 == [p1 EXCEPT !.state = "LOADING"]
                      IN  [pm |-> p2, db |-> save_state_to_db(p2, paused.db),
                           ret |-> TRUE]

\* jump without line 142: a jump while not playing is not saved.
jump_no_final_save(p, d, index, t) ==
    IF ~HasItems(p)
    THEN [pm |-> p, db |-> d, ret |-> FALSE]
    ELSE IF index < 0 \/ index >= NumItems(p)
    THEN [pm |-> p, db |-> d, ret |-> FALSE]
    ELSE LET was_playing == p.is_playing
             paused == pause(p, d, t)
             p1 == [paused.pm EXCEPT !.current_index = index,
                                     !.timecode_ms   = 0]
         IN  IF was_playing
             THEN LET played == play(p1, paused.db, None, t)
                  IN  [pm |-> played.pm, db |-> played.db, ret |-> TRUE]
             ELSE LET p2 == [p1 EXCEPT !.state = "LOADING"]
                  IN  [pm |-> p2, db |-> paused.db, ret |-> TRUE]

\* PlaybackManager.jump
jump(p, d, index, t) ==
    IF ~HasItems(p)
    THEN [pm |-> p, db |-> d, ret |-> FALSE]
    ELSE IF index < 0 \/ index >= NumItems(p)
    THEN [pm |-> p, db |-> d, ret |-> FALSE]
    ELSE LET was_playing == p.is_playing
             paused == pause(p, d, t)
             p1 == [paused.pm EXCEPT !.current_index = index,
                                     !.timecode_ms   = 0]
         IN  IF was_playing
             THEN LET played == play(p1, paused.db, None, t)
                  IN  [pm |-> played.pm, db |-> played.db, ret |-> TRUE]
             ELSE LET p2 == [p1 EXCEPT !.state = "LOADING"]
                  IN  [pm |-> p2, db |-> save_state_to_db(p2, paused.db),
                       ret |-> TRUE]

\* skip without lines 155-156: no clamp at the upper end.
skip_no_upper_clamp(p, d, delta, t) ==
    IF ~HasItems(p)
    THEN [pm |-> p, db |-> d, ret |-> FALSE]
    ELSE LET new_index == p.current_index + delta
             clamped   == IF new_index < 0 THEN 0 ELSE new_index
         IN  jump(p, d, clamped, t)

\* skip that returns at once when the clamped index is the current index.
skip_same_index_returns(p, d, delta, t) ==
    IF ~HasItems(p)
    THEN [pm |-> p, db |-> d, ret |-> FALSE]
    ELSE LET new_index == p.current_index + delta
             clamped   == IF new_index < 0 THEN 0
                          ELSE IF new_index >= NumItems(p)
                               THEN NumItems(p) - 1
                               ELSE new_index
         IN  IF clamped = p.current_index
             THEN [pm |-> p, db |-> d, ret |-> TRUE]
             ELSE jump(p, d, clamped, t)

\* PlaybackManager.skip
skip(p, d, delta, t) ==
    IF ~HasItems(p)
    THEN [pm |-> p, db |-> d, ret |-> FALSE]
    ELSE LET new_index == p.current_index + delta
             clamped   == IF new_index < 0 THEN 0
                          ELSE IF new_index >= NumItems(p)
                               THEN NumItems(p) - 1
                               ELSE new_index
         IN  jump(p, d, clamped, t)

\* send_timecode_update that emits the stored timecode_ms.
send_timecode_update_stored(p, t, show) ==
    IF ~p.is_playing
    THEN <<>>
    ELSE << [event     |-> "SHOW_SET_TIMECODE",
             data      |-> [timecodeMs |-> p.timecode_ms],
             namespace |-> "/show",
             to        |-> show] >>

\* PlaybackManager.send_timecode_update: the messages it emits to the
\* sessions `show` of the /show namespace.
send_timecode_update(p, t, show) ==
    IF ~p.is_playing
    THEN <<>>
    ELSE << [event     |-> "SHOW_SET_TIMECODE",
             data      |-> [timecodeMs |-> get_current_timecode(p, t)],
             namespace |-> "/show",
             to        |-> show] >>

----------------------------------------------------------------------------
(* src/routes/websocket.py *)

\* Session ids of two operator consoles that send commands at the same
\* time.
RacingSids == {"c1", "c2"}

\* No thread is inside a method: the publisher sleeps, no handler runs.
IdleThreads ==
    [update_loop |-> [pc |-> "sleep", now_ms |-> None, elapsed_ms |-> None,
                      whole_read |-> None],
     handlers    |-> [sid \in RacingSids |->
                        [pc |-> "idle", delta |-> None, new_index |-> None]]]

\* emit(event, data, namespace=...) to the sessions `to`.
Msg(event, data, namespace, to) ==
    [event |-> event, data |-> data, namespace |-> namespace, to |-> to]

\* What the last handler was: its name, and whether it ended without
\* reporting a failure (the method's return value where it has one).
Op(name, ret) == [name |-> name, ret |-> ret]

Init ==
    /\ playback_manager = PlaybackManager
    /\ db = init_db
    /\ connected_clients = [control |-> {}, show |-> {}]
    /\ now = 0
    /\ emitted = <<>>
    /\ lastOp = Op("init", TRUE)
    /\ threads = IdleThreads

\* The clock advances by one tick.
AdvanceClock ==
    /\ now < MaxClock
    /\ now' = now + 1
    /\ UNCHANGED <<playback_manager, db, connected_clients,
                   emitted, lastOp, threads>>

\* The process restarts: the module state is built anew, the database and
\* the clock stay.
Restart ==
    /\ playback_manager' = PlaybackManager
    /\ connected_clients' = [control |-> {}, show |-> {}]
    /\ emitted' = <<>>
    /\ lastOp' = Op("restart", TRUE)
    /\ UNCHANGED <<db, now, threads>>

\* update_loop that stores the timecode it reads into the manager.
update_loop_freezing ==
    /\ emitted' = IF playback_manager._initialized
                  THEN send_timecode_update(playback_manager, now,
                                            connected_clients.show)
                  ELSE <<>>
    /\ playback_manager' =
         [playback_manager EXCEPT
            !.timecode_ms = get_current_timecode(playback_manager, now)]
    /\ lastOp' = Op("update_loop", TRUE)
    /\ UNCHANGED <<db, connected_clients, now, threads>>

\* update_loop, one tick of the timecode publisher
update_loop ==
    /\ emitted' = IF playback_manager._initialized
                  THEN send_timecode_update(playback_manager, now,
                                            connected_clients.show)
                  ELSE <<>>
    /\ lastOp' = Op("update_loop", TRUE)
    /\ UNCHANGED <<playback_manager, db, connected_clients, now, threads>>

\* on_control_connect
on_control_connect(sid) ==
    /\ sid \notin connected_clients.control
    /\ playback_manager' = ensure_initialized(playback_manager, db)
    /\ connected_clients' = [connected_clients EXCEPT !.control = @ \cup {sid}]
    /\ emitted' = << Msg("connect", [status |-> "connected"], "/control",
                         {sid}) >>
    /\ lastOp' = Op("on_control_connect", TRUE)
    /\ UNCHANGED <<db, now, threads>>

\* on_control_disconnect
on_control_disconnect(sid) ==
    /\ sid \in connected_clients.control
    /\ connected_clients' = [connected_clients EXCEPT !.control = @ \ {sid}]
    /\ emitted' = <<>>
    /\ lastOp' = Op("on_control_disconnect", TRUE)
    /\ UNCHANGED <<playback_manager, db, now, threads>>

\* on_show_connect that broadcasts the loaded timeline to the namespace.
on_show_connect_broadcast(sid) ==
    /\ sid \notin connected_clients.show
    /\ playback_manager' = ensure_initialized(playback_manager, db)
    /\ connected_clients' = [connected_clients EXCEPT !.show = @ \cup {sid}]
    /\ emitted' =
         << Msg("connect", [status |-> "connected"], "/show", {sid}) >>
         \o (IF playback_manager'.current_timeline # None
             THEN << Msg("SHOW_LOAD_TIMELINE",
                         [timeline |-> Val(playback_manager'.current_timeline)],
                         "/show", connected_clients'.show) >>
             ELSE <<>>)
    /\ lastOp' = Op("on_show_connect", TRUE)
    /\ UNCHANGED <<db, now, threads>>

\* on_show_connect
on_show_connect(sid) ==
    /\ sid \notin connected_clients.show
    /\ playback_manager' = ensure_initialized(playback_manager, db)
    /\ connected_clients' = [connected_clients EXCEPT !.show = @ \cup {sid}]
    /\ emitted' =
         << Msg("connect", [status |-> "connected"], "/show", {sid}) >>
         \o (IF playback_manager'.current_timeline # None
             THEN << Msg("SHOW_LOAD_TIMELINE",
                         [timeline |-> Val(playback_manager'.current_timeline)],
                         "/show", {sid}) >>
             ELSE <<>>)
    /\ lastOp' = Op("on_show_connect", TRUE)
    /\ UNCHANGED <<db, now, threads>>

\* on_show_disconnect that empties the registry of the /show namespace.
on_show_disconnect_all(sid) ==
    /\ sid \in connected_clients.show
    /\ connected_clients' = [connected_clients EXCEPT !.show = {}]
    /\ emitted' = <<>>
    /\ lastOp' = Op("on_show_disconnect", TRUE)
    /\ UNCHANGED <<playback_manager, db, now, threads>>

\* on_show_disconnect
on_show_disconnect(sid) ==
    /\ sid \in connected_clients.show
    /\ connected_clients' = [connected_clients EXCEPT !.show = @ \ {sid}]
    /\ emitted' = <<>>
    /\ lastOp' = Op("on_show_disconnect", TRUE)
    /\ UNCHANGED <<playback_manager, db, now, threads>>

\* on_show_status; timecodeMs is None when the message has no such field.
on_show_status(sid, timecodeMs) ==
    /\ sid \in connected_clients.show
    /\ playback_manager' = IF timecodeMs # None
             THEN [playback_manager EXCEPT !.timecode_ms = Val(timecodeMs)]
             ELSE playback_manager
    /\ emitted' = <<>>
    /\ lastOp' = Op("on_show_status", TRUE)
    /\ UNCHANGED <<db, connected_clients, now, threads>>

\* on_timeline_save that calls load_timeline before it writes the record.
on_timeline_save_loads_first(sid, timeline_data) ==
    /\ sid \in connected_clients.control
    /\ LET p0 == ensure_initialized(playback_manager, db)
           active_timeline == get_active_timeline(db)
       IN  IF timeline_data = None
           THEN /\ playback_manager' = p0
                /\ db' = db
                /\ emitted' = << Msg("TIMELINE_SAVED",
                                     [error |-> "No timeline data provided"],
                                     "/control", {sid}) >>
                /\ lastOp' = Op("on_timeline_save", FALSE)
           ELSE LET timeline_json_str == json_dumps(Val(timeline_data))
                    loaded == load_timeline(p0, db, Val(timeline_data))
                    d1 == IF active_timeline # None
                          THEN [loaded.db EXCEPT
                                  !.timelines[Val(active_timeline)]
                                      .timeline_json = timeline_json_str]
                          ELSE create_timeline(loaded.db, timeline_json_str,
                                               TRUE)
                    id == IF active_timeline # None
                          THEN Val(active_timeline)
                          ELSE Len(d1.timelines)
                IN  /\ playback_manager' = loaded.pm
                    /\ db' = d1
                    /\ emitted' =
                         << Msg("SHOW_LOAD_TIMELINE",
                                [timeline |-> Val(timeline_data)],
                                "/show", connected_clients.show),
                            Msg("TIMELINE_SAVED",
                                [success |-> TRUE, timeline_id |-> id],
                                "/control", {sid}) >>
                    /\ lastOp' = Op("on_timeline_save", TRUE)
    /\ UNCHANGED <<connected_clients, now, threads>>

\* on_timeline_save; timeline_data is None when the message carries no
\* timeline.
on_timeline_save(sid, timeline_data) ==
    /\ sid \in connected_clients.control
    /\ LET p0 == ensure_initialized(playback_manager, db)
           active_timeline == get_active_timeline(db)
       IN  IF timeline_data = None
           THEN /\ playback_manager' = p0
                /\ db' = db
                /\ emitted' = << Msg("TIMELINE_SAVED",
                                     [error |-> "No timeline data provided"],
                                     "/control", {sid}) >>
                /\ lastOp' = Op("on_timeline_save", FALSE)
           ELSE LET timeline_json_str == json_dumps(Val(timeline_data))
                    d1 == IF active_timeline # None
                          THEN [db EXCEPT
                                  !.timelines[Val(active_timeline)]
                                      .timeline_json = timeline_json_str]
                          ELSE create_timeline(db, timeline_json_str, TRUE)
                    id == IF active_timeline # None
                          THEN Val(active_timeline)
                          ELSE Len(d1.timelines)
                    loaded == load_timeline(p0, d1, Val(timeline_data))
                IN  /\ playback_manager' = loaded.pm
                    /\ db' = loaded.db
                    /\ emitted' =
                         << Msg("SHOW_LOAD_TIMELINE",
                                [timeline |-> Val(timeline_data)],
                                "/show", connected_clients.show),
                            Msg("TIMELINE_SAVED",
                                [success |-> TRUE, timeline_id |-> id],
                                "/control", {sid}) >>
                    /\ lastOp' = Op("on_timeline_save", TRUE)
    /\ UNCHANGED <<connected_clients, now, threads>>

\* on_control_play that relays the index the manager had before the call.
on_control_play_stale_index(sid, index) ==
    /\ sid \in connected_clients.control
    /\ LET r == play(ensure_initialized(playback_manager, db), db, index, now)
       IN  /\ playback_manager' = r.pm
           /\ db' = r.db
           /\ emitted' = IF r.ret
                         THEN << Msg("SHOW_PLAY",
                                     [index |-> playback_manager.current_index],
                                     "/show", connected_clients.show) >>
                         ELSE <<>>
           /\ lastOp' = Op("on_control_play", r.ret)
    /\ UNCHANGED <<connected_clients, now, threads>>

\* on_control_play; index is None when the message has no index.
on_control_play(sid, index) ==
    /\ sid \in connected_clients.control
    /\ LET r == play(ensure_initialized(playback_manager, db), db, index, now)
       IN  /\ playback_manager' = r.pm
           /\ db' = r.db
           /\ emitted' = IF r.ret
                         THEN << Msg("SHOW_PLAY",
                                     [index |-> r.pm.current_index],
                                     "/show", connected_clients.show) >>
                         ELSE <<>>
           /\ lastOp' = Op("on_control_play", r.ret)
    /\ UNCHANGED <<connected_clients, now, threads>>

\* on_control_pause
on_control_pause(sid) ==
    /\ sid \in connected_clients.control
    /\ LET r == pause(ensure_initialized(playback_manager, db), db, now)
       IN  /\ playback_manager' = r.pm
           /\ db' = r.db
    /\ emitted' = << Msg("SHOW_PAUSE", <<>>, "/show",
                         connected_clients.show) >>
    /\ lastOp' = Op("on_control_pause", TRUE)
    /\ UNCHANGED <<connected_clients, now, threads>>

\* on_control_jump that relays the jump whatever jump() returned.
on_control_jump_always_emits(sid, index) ==
    /\ sid \in connected_clients.control
    /\ IF index # None
       THEN LET r == jump(ensure_initialized(playback_manager, db), db,
                          Val(index), now)
            IN  /\ playback_manager' = r.pm
                /\ db' = r.db
                /\ emitted' = << Msg("SHOW_JUMP", [index |-> Val(index)],
                                     "/show", connected_clients.show) >>
                /\ lastOp' = Op("on_control_jump", r.ret)
       ELSE /\ emitted' = <<>>
            /\ lastOp' = Op("on_control_jump", FALSE)
            /\ UNCHANGED <<playback_manager, db>>
    /\ UNCHANGED <<connected_clients, now, threads>>

\* on_control_jump; index is None when the message has no index.
on_control_jump(sid, index) ==
    /\ sid \in connected_clients.control
    /\ IF index # None
       THEN LET r == jump(ensure_initialized(playback_manager, db), db,
                          Val(index), now)
            IN  /\ playback_manager' = r.pm
                /\ db' = r.db
                /\ emitted' = IF r.ret
                              THEN << Msg("SHOW_JUMP", [index |-> Val(index)],
                                          "/show", connected_clients.show) >>
                              ELSE <<>>
                /\ lastOp' = Op("on_control_jump", r.ret)
       ELSE /\ emitted' = <<>>
            /\ lastOp' = Op("on_control_jump", FALSE)
            /\ UNCHANGED <<playback_manager, db>>
    /\ UNCHANGED <<connected_clients, now, threads>>

\* on_control_skip; the handler has put 1 for a missing delta.
on_control_skip(sid, delta) ==
    /\ sid \in connected_clients.control
    /\ LET r == skip(ensure_initialized(playback_manager, db), db, delta, now)
       IN  /\ playback_manager' = r.pm
           /\ db' = r.db
           /\ emitted' = IF r.ret
                         THEN << Msg("SHOW_SKIP", [delta |-> delta],
                                     "/show", connected_clients.show) >>
                         ELSE <<>>
           /\ lastOp' = Op("on_control_skip", r.ret)
    /\ UNCHANGED <<connected_clients, now, threads>>

Next ==
    \/ AdvanceClock
    \/ Restart
    \/ update_loop
    \/ \E sid \in ControlSids : on_control_connect(sid)
    \/ \E sid \in ControlSids : on_control_disconnect(sid)
    \/ \E sid \in ShowSids : on_show_connect(sid)
    \/ \E sid \in ShowSids : on_show_disconnect(sid)
    \/ \E sid \in ShowSids, tc \in Optional(StatusTimecodes) :
           on_show_status(sid, tc)
    \/ \E sid \in ControlSids, tl \in Optional(TimelineDefs) :
           on_timeline_save(sid, tl)
    \/ \E sid \in ControlSids, i \in Optional(Indices) :
           on_control_play(sid, i)
    \/ \E sid \in ControlSids : on_control_pause(sid)
    \/ \E sid \in ControlSids, i \in Optional(Indices) :
           on_control_jump(sid, i)
    \/ \E sid \in ControlSids, delta \in Deltas : on_control_skip(sid, delta)

Spec == Init /\ [][Next]_vars

\* The persisted record references a timeline row that is not in the table
\* (Timeline.query.get returns None).
Dangling(d) ==
    /\ d.playback_state.timeline_id # None
    /\ Val(d.playback_state.timeline_id) \notin 1..Len(d.timelines)

\* The process starts on a database whose timeline row 1 has been removed
\* after the record was persisted, while playing or not.
InitStale ==
    /\ playback_manager = PlaybackManager
    /\ \E playing \in BOOLEAN :
          db = update_playback_state(init_db, Some(1), 0, 0, playing)
    /\ connected_clients = [control |-> {}, show |-> {}]
    /\ now = 0
    /\ emitted = <<>>
    /\ lastOp = Op("init", TRUE)
    /\ threads = IdleThreads

SpecStale == InitStale /\ [][Next]_vars

----------------------------------------------------------------------------
(* The publisher thread, statement by statement.  update_loop runs in a    *)
(* threading.Thread of its own and takes no lock: a handler can run        *)
(* between any two of its reads of the manager.  now_ms and elapsed_ms are *)
(* the locals of get_current_timecode, in ticks; whole_read records what   *)
(* the whole method would have returned at the instant of its first line.  *)

\* The publisher thread is at the given position.
AtPc(pc) == threads.update_loop.pc = pc

\* update_loop wakes up and send_timecode_update tests is_playing
\* (websocket.py:37-38, playback.py:184-185).
send_timecode_update_test ==
    /\ AtPc("sleep")
    /\ IF playback_manager._initialized /\ playback_manager.is_playing
       THEN /\ threads' = [threads EXCEPT !.update_loop.pc = "guard"]
            /\ UNCHANGED <<emitted, lastOp>>
       ELSE /\ emitted' = <<>>
            /\ lastOp' = Op("update_loop", TRUE)
            /\ UNCHANGED threads
    /\ UNCHANGED <<playback_manager, db, connected_clients, now>>

\* get_current_timecode, the test of its first line and the reading of the
\* clock (playback.py:162-165).
get_current_timecode_guard ==
    /\ AtPc("guard")
    /\ IF ~playback_manager.is_playing
          \/ playback_manager.playback_start_time = None
       THEN /\ emitted' = << Msg("SHOW_SET_TIMECODE",
                                 [timecodeMs |-> playback_manager.timecode_ms],
                                 "/show", connected_clients.show) >>
            /\ lastOp' = Op("update_loop", TRUE)
            /\ threads' = [threads EXCEPT !.update_loop = IdleThreads.update_loop]
       ELSE /\ threads' =
                 [threads EXCEPT
                    !.update_loop.pc = "elapsed",
                    !.update_loop.now_ms = Some(now),
                    !.update_loop.whole_read =
                        Some(get_current_timecode(playback_manager, now))]
            /\ UNCHANGED <<emitted, lastOp>>
    /\ UNCHANGED <<playback_manager, db, connected_clients, now>>

\* get_current_timecode_elapsed in an update_loop without try/except: the
\* TypeError ends the thread.
get_current_timecode_elapsed_uncaught ==
    /\ AtPc("elapsed")
    /\ IF playback_manager.playback_start_time = None
       THEN /\ emitted' = <<>>
            /\ lastOp' = Op("update_loop", FALSE)
            /\ threads' = [threads EXCEPT !.update_loop.pc = "ended"]
       ELSE /\ threads' =
                 [threads EXCEPT
                    !.update_loop.pc = "offset",
                    !.update_loop.elapsed_ms =
                        Some(Val(threads.update_loop.now_ms)
                             - Val(playback_manager.playback_start_time))]
            /\ UNCHANGED <<emitted, lastOp>>
    /\ UNCHANGED <<playback_manager, db, connected_clients, now>>

\* elapsed_ms = now_ms - self.playback_start_time (playback.py:166); with
\* None for the start time the subtraction raises TypeError, which
\* update_loop catches and logs (websocket.py:40-41).
get_current_timecode_elapsed ==
    /\ AtPc("elapsed")
    /\ IF playback_manager.playback_start_time = None
       THEN /\ emitted' = <<>>
            /\ lastOp' = Op("update_loop", FALSE)
            /\ threads' = [threads EXCEPT !.update_loop = IdleThreads.update_loop]
       ELSE /\ threads' =
                 [threads EXCEPT
                    !.update_loop.pc = "offset",
                    !.update_loop.elapsed_ms =
                        Some(Val(threads.update_loop.now_ms)
                             - Val(playback_manager.playback_start_time))]
            /\ UNCHANGED <<emitted, lastOp>>
    /\ UNCHANGED <<playback_manager, db, connected_clients, now>>

\* current_timecode = self.initial_offset_ms + elapsed_ms, and the emit of
\* send_timecode_update (playback.py:167-169, 187-192).
get_current_timecode_return ==
    /\ AtPc("offset")
    /\ emitted' =
         << Msg("SHOW_SET_TIMECODE",
                [timecodeMs |->
                   IntOfTicks(playback_manager.initial_offset_ms * TicksPerMs
                              + Val(threads.update_loop.elapsed_ms))],
                "/show", connected_clients.show) >>
    /\ lastOp' = Op("update_loop", TRUE)
    /\ threads' = [threads EXCEPT !.update_loop.pc = "sent"]
    /\ UNCHANGED <<playback_manager, db, connected_clients, now>>

\* The thread goes back to sleep.
update_loop_sleep ==
    /\ AtPc("sent")
    /\ threads' = [threads EXCEPT !.update_loop = IdleThreads.update_loop]
    /\ UNCHANGED <<playback_manager, db, connected_clients, now, emitted,
                   lastOp>>

\* The publisher thread next to the handlers of one operator console.
NextPublisher ==
    \/ AdvanceClock
    \/ send_timecode_update_test
    \/ get_current_timecode_guard
    \/ get_current_timecode_elapsed
    \/ get_current_timecode_return
    \/ update_loop_sleep
    \/ \E sid \in ControlSids : on_control_connect(sid)
    \/ \E sid \in ControlSids, tl \in Optional(TimelineDefs) :
           on_timeline_save(sid, tl)
    \/ \E sid \in ControlSids : on_control_play(sid, None)
    \/ \E sid \in ControlSids : on_control_pause(sid)
    \/ \E sid \in ControlSids, i \in Optional(Indices) :
           on_control_jump(sid, i)

SpecPublisher == Init /\ [][NextPublisher]_vars

\* A step of the publisher thread: `while True` with a sleep of 500 ms, in a
\* thread of its own.
update_loop_step ==
    \/ send_timecode_update_test
    \/ get_current_timecode_guard
    \/ get_current_timecode_elapsed
    \/ get_current_timecode_return
    \/ update_loop_sleep

\* The thread is scheduled again and again; the handlers run when messages
\* arrive, with no assumption on them.
FairSpecPublisher == SpecPublisher /\ WF_vars(update_loop_step)

\* The thread emits SHOW_SET_TIMECODE: at the return of get_current_timecode
\* from its first line, or after the computation of the live value.
PublisherBroadcast ==
    \/ get_current_timecode_guard /\ threads'.update_loop.pc = "sleep"
    \/ get_current_timecode_return

----------------------------------------------------------------------------
(* Two CONTROL_SKIP handlers at the same time.  Each connection's handler  *)
(* runs in a thread of its own and PlaybackManager takes no lock: the      *)
(* other handler can run between the reading of current_index in skip()    *)
(* and the call of jump().                                                 *)

\* The manager and the database once an operator console has saved the
\* longest timeline.
LoadedStart ==
    load_timeline(ensure_initialized(PlaybackManager, init_db),
                  create_timeline(init_db,
                                  json_dumps(TimelineDef(MaxItems)), TRUE),
                  TimelineDef(MaxItems))

\* Two operator consoles are connected and the longest timeline is loaded.
InitHandlers ==
    /\ playback_manager = LoadedStart.pm
    /\ db = LoadedStart.db
    /\ connected_clients = [control |-> RacingSids, show |-> {}]
    /\ now = 0
    /\ emitted = <<>>
    /\ lastOp = Op("on_timeline_save", TRUE)
    /\ threads = IdleThreads

\* on_control_skip and skip() up to the clamped new_index
\* (websocket.py:263-268, playback.py:146-156).
skip_new_index(sid, delta) ==
    /\ sid \in connected_clients.control
    /\ threads.handlers[sid].pc = "idle"
    /\ IF ~HasItems(playback_manager)
       THEN /\ threads' = [threads EXCEPT
                             !.handlers[sid].pc = "done",
                             !.handlers[sid].delta = Some(delta)]
            /\ emitted' = <<>>
            /\ lastOp' = Op("on_control_skip", FALSE)
       ELSE /\ threads' =
                 [threads EXCEPT
                    !.handlers[sid].pc = "jump",
                    !.handlers[sid].delta = Some(delta),
                    !.handlers[sid].new_index =
                        LET new_index == playback_manager.current_index + delta
                        IN  Some(IF new_index < 0 THEN 0
                                 ELSE IF new_index >= NumItems(playback_manager)
                                      THEN NumItems(playback_manager) - 1
                                      ELSE new_index)]
            /\ UNCHANGED <<emitted, lastOp>>
    /\ UNCHANGED <<playback_manager, db, connected_clients, now>>

\* return self.jump(new_index), and the emit of on_control_skip
\* (playback.py:158, websocket.py:269-270).
skip_jump(sid) ==
    /\ threads.handlers[sid].pc = "jump"
    /\ LET r == jump(playback_manager, db,
                     Val(threads.handlers[sid].new_index), now)
       IN  /\ playback_manager' = r.pm
           /\ db' = r.db
           /\ emitted' = IF r.ret
                         THEN << Msg("SHOW_SKIP",
                                     [delta |-> Val(threads.handlers[sid].delta)],
                                     "/show", connected_clients.show) >>
                         ELSE <<>>
           /\ lastOp' = Op("on_control_skip", r.ret)
    /\ threads' = [threads EXCEPT !.handlers[sid].pc = "done",
                                  !.handlers[sid].new_index = None]
    /\ UNCHANGED <<connected_clients, now>>

NextHandlers ==
    \/ \E sid \in RacingSids, delta \in Deltas : skip_new_index(sid, delta)
    \/ \E sid \in RacingSids : skip_jump(sid)

SpecHandlers == InitHandlers /\ [][NextHandlers]_vars

----------------------------------------------------------------------------
(* A failing write.  save_state_to_db has no try/except: when the          *)
(* db.session.commit() of update_playback_state raises, the exception      *)
(* leaves the method at that call.  The operators give the manager and the *)
(* database at the raise of the n-th save of the call, and None when the   *)
(* call makes no n-th save.                                                *)

\* The saves a call can make: jump while playing saves in pause() and in
\* play().
Saves == {1, 2}

\* PlaybackManager.load_timeline, its save raising
load_timeline_raises(p, d, timeline_data, n) ==
    IF n = 1
    THEN Some([pm |-> load_timeline(p, d, timeline_data).pm, db |-> d])
    ELSE None

\* PlaybackManager.play, its save raising
play_raises(p, d, index, t, n) ==
    LET r == play(p, d, index, t)
    IN  IF r.ret /\ n = 1 THEN Some([pm |-> r.pm, db |-> d]) ELSE None

\* PlaybackManager.pause, its save raising
pause_raises(p, d, t, n) ==
    IF p.is_playing /\ n = 1
    THEN Some([pm |-> pause(p, d, t).pm, db |-> d])
    ELSE None

\* PlaybackManager.jump, its n-th save raising: while playing the first is
\* the save of pause(), before the index is assigned, and the second the
\* save of play().
jump_raises(p, d, index, t, n) ==
    IF ~HasItems(p) \/ index < 0 \/ index >= NumItems(p)
    THEN None
    ELSE IF p.is_playing
         THEN IF n = 1
              THEN Some([pm |-> pause(p, d, t).pm, db |-> d])
              ELSE Some([pm |-> jump(p, d, index, t).pm,
                         db |-> pause(p, d, t).db])
         ELSE IF n = 1
              THEN Some([pm |-> jump(p, d, index, t).pm, db |-> d])
              ELSE None

\* PlaybackManager.skip, the n-th save of its jump raising
skip_raises(p, d, delta, t, n) ==
    IF ~HasItems(p)
    THEN None
    ELSE LET new_index == p.current_index + delta
         IN  jump_raises(p, d,
                         IF new_index < 0 THEN 0
                         ELSE IF new_index >= NumItems(p)
                              THEN NumItems(p) - 1
                              ELSE new_index,
                         t, n)

\* A control handler whose call raised: the exception leaves the handler
\* and nothing is emitted.

\* on_control_play, the save of play() raising
on_control_play_raises(sid, index, n) ==
    /\ sid \in connected_clients.control
    /\ LET raised == play_raises(ensure_initialized(playback_manager, db),
                                 db, index, now, n)
       IN  /\ raised # None
           /\ playback_manager' = Val(raised).pm
           /\ db' = Val(raised).db
    /\ emitted' = <<>>
    /\ lastOp' = Op("on_control_play raised", FALSE)
    /\ UNCHANGED <<connected_clients, now, threads>>

\* on_control_pause, the save of pause() raising
on_control_pause_raises(sid, n) ==
    /\ sid \in connected_clients.control
    /\ LET raised == pause_raises(ensure_initialized(playback_manager, db),
                                  db, now, n)
       IN  /\ raised # None
           /\ playback_manager' = Val(raised).pm
           /\ db' = Val(raised).db
    /\ emitted' = <<>>
    /\ lastOp' = Op("on_control_pause raised", FALSE)
    /\ UNCHANGED <<connected_clients, now, threads>>

\* on_control_jump, a save of jump() raising
on_control_jump_raises(sid, index, n) ==
    /\ sid \in connected_clients.control
    /\ LET raised == jump_raises(ensure_initialized(playback_manager, db),
                                 db, index, now, n)
       IN  /\ raised # None
           /\ playback_manager' = Val(raised).pm
           /\ db' = Val(raised).db
    /\ emitted' = <<>>
    /\ lastOp' = Op("on_control_jump raised", FALSE)
    /\ UNCHANGED <<connected_clients, now, threads>>

\* on_control_skip, a save of skip() raising
on_control_skip_raises(sid, delta, n) ==
    /\ sid \in connected_clients.control
    /\ LET raised == skip_raises(ensure_initialized(playback_manager, db),
                                 db, delta, now, n)
       IN  /\ raised # None
           /\ playback_manager' = Val(raised).pm
           /\ db' = Val(raised).db
    /\ emitted' = <<>>
    /\ lastOp' = Op("on_control_skip raised", FALSE)
    /\ UNCHANGED <<connected_clients, now, threads>>

\* on_timeline_save, the save of load_timeline raising after the timeline
\* row has been written: the handler catches the exception and answers
\* TIMELINE_SAVED with the error (websocket.py:222-226).
on_timeline_save_raises(sid, timeline_data, n) ==
    /\ sid \in connected_clients.control
    /\ LET active_timeline == get_active_timeline(db)
           timeline_json_str == json_dumps(timeline_data)
           d1 == IF active_timeline # None
                 THEN [db EXCEPT !.timelines[Val(active_timeline)]
                                     .timeline_json = timeline_json_str]
                 ELSE create_timeline(db, timeline_json_str, TRUE)
           raised == load_timeline_raises(
                         ensure_initialized(playback_manager, db), d1,
                         timeline_data, n)
       IN  /\ raised # None
           /\ playback_manager' = Val(raised).pm
           /\ db' = Val(raised).db
    /\ emitted' = << Msg("TIMELINE_SAVED", [error |-> "OperationalError"],
                         "/control", {sid}) >>
    /\ lastOp' = Op("on_timeline_save raised", FALSE)
    /\ UNCHANGED <<connected_clients, now, threads>>

\* One operator console, with writes that can fail.
NextStorage ==
    \/ AdvanceClock
    \/ \E sid \in ControlSids : on_control_connect(sid)
    \/ \E sid \in ControlSids, tl \in TimelineDefs :
           on_timeline_save(sid, Some(tl))
    \/ \E sid \in ControlSids, i \in Optional(Indices) :
           on_control_play(sid, i)
    \/ \E sid \in ControlSids : on_control_pause(sid)
    \/ \E sid \in ControlSids, i \in Indices : on_control_jump(sid, Some(i))
    \/ \E sid \in ControlSids, delta \in Deltas : on_control_skip(sid, delta)
    \/ \E sid \in ControlSids, tl \in TimelineDefs, n \in Saves :
           on_timeline_save_raises(sid, tl, n)
    \/ \E sid \in ControlSids, i \in Optional(Indices), n \in Saves :
           on_control_play_raises(sid, i, n)
    \/ \E sid \in ControlSids, n \in Saves : on_control_pause_raises(sid, n)
    \/ \E sid \in ControlSids, i \in Indices, n \in Saves :
           on_control_jump_raises(sid, i, n)
    \/ \E sid \in ControlSids, delta \in Deltas, n \in Saves :
           on_control_skip_raises(sid, delta, n)

SpecStorage == Init /\ [][NextStorage]_vars

----------------------------------------------------------------------------
(* src/routes/api.py, the timeline endpoints *)

\* Largest number of rows of the timelines table.
MaxTimelines == 2

\* update_timeline: setattr of the given columns on the row.
update_timeline(d, timeline_id, timeline_json, is_active) ==
    LET row  == d.timelines[timeline_id]
        row1 == IF timeline_json # None
                THEN [row EXCEPT !.timeline_json = Val(timeline_json)]
                ELSE row
        row2 == IF is_active # None
                THEN [row1 EXCEPT !.is_active = Val(is_active)]
                ELSE row1
    IN  [d EXCEPT !.timelines[timeline_id] = row2]

\* POST /api/timelines; is_active is data.get('is_active', False).
create_timeline_endpoint(timeline_json, is_active) ==
    /\ Len(db.timelines) < MaxTimelines
    /\ db' = create_timeline(db, json_dumps(timeline_json), is_active)
    /\ emitted' = <<>>
    /\ lastOp' = Op("create_timeline_endpoint", TRUE)
    /\ UNCHANGED <<playback_manager, connected_clients, now, threads>>

\* PUT /api/timelines/<timeline_id>; a column is None when the request does
\* not carry it.  An unknown id is answered 404.
update_timeline_endpoint(timeline_id, timeline_json, is_active) ==
    /\ IF timeline_id \in 1..Len(db.timelines)
       THEN /\ db' = update_timeline(db, timeline_id,
                        IF timeline_json # None
                        THEN Some(json_dumps(Val(timeline_json))) ELSE None,
                        is_active)
            /\ lastOp' = Op("update_timeline_endpoint", TRUE)
       ELSE /\ db' = db
            /\ lastOp' = Op("update_timeline_endpoint", FALSE)
    /\ emitted' = <<>>
    /\ UNCHANGED <<playback_manager, connected_clients, now, threads>>

\* The operator UI on the control namespace and a client of the REST API.
NextApi ==
    \/ Restart
    \/ \E sid \in ControlSids : on_control_connect(sid)
    \/ \E sid \in ControlSids, tl \in Optional(TimelineDefs) :
           on_timeline_save(sid, tl)
    \/ \E sid \in ControlSids, i \in Optional(Indices) :
           on_control_play(sid, i)
    \/ \E sid \in ControlSids : on_control_pause(sid)
    \/ \E tl \in TimelineDefs, active \in BOOLEAN :
           create_timeline_endpoint(tl, active)
    \/ \E id \in 1..MaxTimelines, tl \in Optional(TimelineDefs),
          active \in Optional(BOOLEAN) :
           update_timeline_endpoint(id, tl, active)

SpecApi == Init /\ [][NextApi]_vars

-----------------------------------------------------------------------------
(* Scene control: the relays of app.py *)

\* Values of a scene parameter sent by the operator UI: the values of the
\* relay tests, in range (3, 1) and out of range (100, -5).
ParamValues == {-5, 1, 3, 100}

\* The payload of CONTROL_START_SCENE.
StartScenePayloads ==
    {[sceneId |-> "lissajous", params |-> [a |-> a, speed |-> speed]] :
        a \in {3, 100}, speed \in {-5, 1}}

\* The payload of CONTROL_UPDATE_PARAMS.
UpdateParamsPayloads ==
    {[params |-> [a |-> a, speed |-> speed]] : a \in ParamValues,
                                               speed \in {-5, 1}}

\* handle_control_start_scene that keeps the speed parameter non-negative.
handle_control_start_scene_validating(sid, data) ==
    /\ sid \in connected_clients.control
    /\ emitted' = << Msg("SHOW_START_SCENE",
                         [data EXCEPT !.params.speed =
                                        IF @ < 0 THEN 0 ELSE @],
                         "/show", connected_clients.show) >>
    /\ lastOp' = Op("handle_control_start_scene", TRUE)
    /\ UNCHANGED <<playback_manager, db, connected_clients, now, threads>>

\* handle_control_start_scene
handle_control_start_scene(sid, data) ==
    /\ sid \in connected_clients.control
    /\ emitted' = << Msg("SHOW_START_SCENE", data, "/show",
                         connected_clients.show) >>
    /\ lastOp' = Op("handle_control_start_scene", TRUE)
    /\ UNCHANGED <<playback_manager, db, connected_clients, now, threads>>

\* handle_control_update_params
handle_control_update_params(sid, data) ==
    /\ sid \in connected_clients.control
    /\ emitted' = << Msg("SHOW_UPDATE_PARAMS", data, "/show",
                         connected_clients.show) >>
    /\ lastOp' = Op("handle_control_update_params", TRUE)
    /\ UNCHANGED <<playback_manager, db, connected_clients, now, threads>>

\* handle_control_stop_scene; the payload received is dropped.
handle_control_stop_scene(sid, data) ==
    /\ sid \in connected_clients.control
    /\ emitted' = << Msg("SHOW_STOP_SCENE", <<>>, "/show",
                         connected_clients.show) >>
    /\ lastOp' = Op("handle_control_stop_scene", TRUE)
    /\ UNCHANGED <<playback_manager, db, connected_clients, now, threads>>

\* The operator UI drives the transport and the scenes while show views
\* come and go.
NextScene ==
    \/ AdvanceClock
    \/ \E sid \in ControlSids : on_control_connect(sid)
    \/ \E sid \in ShowSids : on_show_connect(sid)
    \/ \E sid \in ShowSids : on_show_disconnect(sid)
    \/ \E sid \in ControlSids, tl \in Optional(TimelineDefs) :
           on_timeline_save(sid, tl)
    \/ \E sid \in ControlSids, i \in Optional(Indices) :
           on_control_play(sid, i)
    \/ \E sid \in ControlSids : on_control_pause(sid)
    \/ \E sid \in ControlSids, data \in StartScenePayloads :
           handle_control_start_scene(sid, data)
    \/ \E sid \in ControlSids, data \in UpdateParamsPayloads :
           handle_control_update_params(sid, data)
    \/ \E sid \in ControlSids, data \in Optional(StartScenePayloads) :
           handle_control_stop_scene(sid, data)

SpecScene == Init /\ [][NextScene]_vars

-----------------------------------------------------------------------------
(* Messages from a show view: telemetry, echoes and requests *)

\* The payload of SHOW_FPS_UPDATE.
FpsPayloads == {[fps |-> fps, timestamp |-> ts] : fps \in {30, 60},
                                                 ts \in {0, 1}}

\* The payload of ERROR.
ErrorPayloads == {[message |-> m] : m \in {"asset failed", "render failed"}}

\* The payload of PING; the timestamp field may be missing.
PingPayloads == {[timestamp |-> ts] : ts \in Optional({0, 1})}

\* The payload of the SHOW_PLAY, SHOW_PAUSE and ASSET_PRELOAD_DONE echoes.
EchoPayloads == {[index |-> i] : i \in {0, MaxItems}}

\* on_show_ping; the reply goes to the sender.
on_show_ping(sid, data) ==
    /\ sid \in connected_clients.show
    /\ emitted' = << Msg("PONG", [timestamp |-> data.timestamp,
                                  echo |-> "pong"], "/show", {sid}) >>
    /\ lastOp' = Op("on_show_ping", TRUE)
    /\ UNCHANGED <<playback_manager, db, connected_clients, now, threads>>

\* on_show_pong
on_show_pong(sid, data) ==
    /\ sid \in connected_clients.show
    /\ emitted' = <<>>
    /\ lastOp' = Op("on_show_pong", TRUE)
    /\ UNCHANGED <<playback_manager, db, connected_clients, now, threads>>

\* on_show_load_timeline; the reply goes to the sender.
on_show_load_timeline(sid) ==
    /\ sid \in connected_clients.show
    /\ playback_manager' = ensure_initialized(playback_manager, db)
    /\ emitted' = IF playback_manager'.current_timeline # None
                  THEN << Msg("SHOW_LOAD_TIMELINE",
                              [timeline |->
                                 Val(playback_manager'.current_timeline)],
                              "/show", {sid}) >>
                  ELSE <<>>
    /\ lastOp' = Op("on_show_load_timeline", TRUE)
    /\ UNCHANGED <<db, connected_clients, now, threads>>

\* on_show_play
on_show_play(sid, data) ==
    /\ sid \in connected_clients.show
    /\ emitted' = <<>>
    /\ lastOp' = Op("on_show_play", TRUE)
    /\ UNCHANGED <<playback_manager, db, connected_clients, now, threads>>

\* on_show_pause
on_show_pause(sid, data) ==
    /\ sid \in connected_clients.show
    /\ emitted' = <<>>
    /\ lastOp' = Op("on_show_pause", TRUE)
    /\ UNCHANGED <<playback_manager, db, connected_clients, now, threads>>

\* on_asset_preload_done
on_asset_preload_done(sid, data) ==
    /\ sid \in connected_clients.show
    /\ emitted' = <<>>
    /\ lastOp' = Op("on_asset_preload_done", TRUE)
    /\ UNCHANGED <<playback_manager, db, connected_clients, now, threads>>

\* on_show_error without broadcast=True: the notice goes to the sender's id.
on_show_error_no_broadcast(sid, data) ==
    /\ sid \in connected_clients.show
    /\ emitted' = << Msg("SHOW_ERROR", data, "/control", {sid}) >>
    /\ lastOp' = Op("on_show_error", TRUE)
    /\ UNCHANGED <<playback_manager, db, connected_clients, now, threads>>

\* on_show_error
on_show_error(sid, data) ==
    /\ sid \in connected_clients.show
    /\ emitted' = << Msg("SHOW_ERROR", data, "/control",
                         connected_clients.control) >>
    /\ lastOp' = Op("on_show_error", TRUE)
    /\ UNCHANGED <<playback_manager, db, connected_clients, now, threads>>

\* handle_show_fps_update
handle_show_fps_update(sid, data) ==
    /\ sid \in connected_clients.show
    /\ emitted' = << Msg("SHOW_FPS_UPDATE", data, "/control",
                         connected_clients.control) >>
    /\ lastOp' = Op("handle_show_fps_update", TRUE)
    /\ UNCHANGED <<playback_manager, db, connected_clients, now, threads>>

\* Show views send every message they can while the operator UI loads and
\* plays a timeline and the process restarts.
NextShow ==
    \/ Restart
    \/ \E sid \in ControlSids : on_control_connect(sid)
    \/ \E sid \in ControlSids, tl \in Optional(TimelineDefs) :
           on_timeline_save(sid, tl)
    \/ \E sid \in ControlSids, i \in Optional(Indices) :
           on_control_play(sid, i)
    \/ \E sid \in ShowSids : on_show_connect(sid)
    \/ \E sid \in ShowSids : on_show_disconnect(sid)
    \/ \E sid \in ShowSids, data \in PingPayloads : on_show_ping(sid, data)
    \/ \E sid \in ShowSids, data \in PingPayloads : on_show_pong(sid, data)
    \/ \E sid \in ShowSids, tc \in Optional(StatusTimecodes) :
           on_show_status(sid, tc)
    \/ \E sid \in ShowSids : on_show_load_timeline(sid)
    \/ \E sid \in ShowSids, data \in EchoPayloads : on_show_play(sid, data)
    \/ \E sid \in ShowSids, data \in EchoPayloads : on_show_pause(sid, data)
    \/ \E sid \in ShowSids, data \in EchoPayloads :
           on_asset_preload_done(sid, data)
    \/ \E sid \in ShowSids, data \in ErrorPayloads : on_show_error(sid, data)
    \/ \E sid \in ShowSids, data \in FpsPayloads :
           handle_show_fps_update(sid, data)

SpecShow == Init /\ [][NextShow]_vars

-----------------------------------------------------------------------------
(* Commands of one control connection.  SocketIO(app, ...) is built with   *)
(* the defaults of the library: the handler of each received event is      *)
(* started as a task of its own, in the order of receipt, and nothing in   *)
(* the handlers or in the manager orders the tasks once they run.          *)

\* The commands one connection sends in a burst.
MaxCommands == 3

\* A command: a CONTROL_JUMP with its index, or a CONTROL_UPDATE_PARAMS
\* with the value of its parameter a.
Commands ==
    {[event |-> "CONTROL_JUMP", value |-> i] : i \in {0, MaxItems - 1}}
    \cup {[event |-> "CONTROL_UPDATE_PARAMS", value |-> a] : a \in {3, 5}}

\* The longest timeline is loaded, an operator console and the show views
\* are connected; nothing has been received yet.
InitDispatch ==
    /\ playback_manager = LoadedStart.pm
    /\ db = LoadedStart.db
    /\ connected_clients = [control |-> ControlSids, show |-> ShowSids]
    /\ now = 0
    /\ emitted = <<>>
    /\ lastOp = Op("on_timeline_save", TRUE)
    /\ threads = [update_loop |-> IdleThreads.update_loop,
                  handlers    |-> IdleThreads.handlers,
                  received    |-> <<>>,
                  running     |-> {},
                  delivered   |-> <<>>]

\* The server receives the next command of the connection and starts the
\* task of its handler.
receive(cmd) ==
    /\ Len(threads.received) < MaxCommands
    /\ threads' = [threads EXCEPT
                     !.received = Append(@, cmd),
                     !.running  = @ \cup {Len(threads.received) + 1}]
    /\ UNCHANGED <<playback_manager, db, connected_clients, now, emitted,
                   lastOp>>

\* The task of the k-th command runs on_control_jump.
run_on_control_jump(k) ==
    /\ k \in threads.running
    /\ threads.received[k].event = "CONTROL_JUMP"
    /\ LET index == threads.received[k].value
           r == jump(ensure_initialized(playback_manager, db), db, index, now)
       IN  /\ playback_manager' = r.pm
           /\ db' = r.db
           /\ emitted' = IF r.ret
                         THEN << Msg("SHOW_JUMP", [index |-> index],
                                     "/show", connected_clients.show) >>
                         ELSE <<>>
           /\ lastOp' = Op("on_control_jump", r.ret)
    /\ threads' = [threads EXCEPT
                     !.running   = @ \ {k},
                     !.delivered =
                        IF emitted' # <<>>
                        THEN Append(@, [event |-> "SHOW_JUMP",
                                        value |-> emitted'[1].data.index])
                        ELSE @]
    /\ UNCHANGED <<connected_clients, now>>

\* The task of the k-th command runs handle_control_update_params.
run_handle_control_update_params(k) ==
    /\ k \in threads.running
    /\ threads.received[k].event = "CONTROL_UPDATE_PARAMS"
    /\ emitted' = << Msg("SHOW_UPDATE_PARAMS",
                         [params |-> [a |-> threads.received[k].value]],
                         "/show", connected_clients.show) >>
    /\ lastOp' = Op("handle_control_update_params", TRUE)
    /\ threads' = [threads EXCEPT
                     !.running   = @ \ {k},
                     !.delivered =
                        Append(@, [event |-> "SHOW_UPDATE_PARAMS",
                                   value |-> emitted'[1].data.params.a])]
    /\ UNCHANGED <<playback_manager, db, connected_clients, now>>

NextDispatch ==
    \/ \E cmd \in Commands : receive(cmd)
    \/ \E k \in 1..MaxCommands : run_on_control_jump(k)
    \/ \E k \in 1..MaxCommands : run_handle_control_update_params(k)

SpecDispatch == InitDispatch /\ [][NextDispatch]_vars

-----------------------------------------------------------------------------
(* Show views that stay connected while an operator console sends commands *)

\* The operator console and the show views have connected to a fresh
\* server; nothing is loaded.
InitRenderer ==
    /\ playback_manager = ensure_initialized(PlaybackManager, init_db)
    /\ db = init_db
    /\ connected_clients = [control |-> ControlSids, show |-> ShowSids]
    /\ now = 0
    /\ emitted = <<>>
    /\ lastOp = Op("on_show_connect", TRUE)
    /\ threads = IdleThreads

NextRenderer ==
    \/ AdvanceClock
    \/ \E sid \in ControlSids, tl \in Optional(TimelineDefs) :
           on_timeline_save(sid, tl)
    \/ \E sid \in ControlSids, i \in Optional(Indices) :
           on_control_play(sid, i)
    \/ \E sid \in ControlSids : on_control_pause(sid)
    \/ \E sid \in ControlSids, i \in Optional(Indices) :
           on_control_jump(sid, i)
    \/ \E sid \in ControlSids, delta \in Deltas : on_control_skip(sid, delta)

SpecRenderer == InitRenderer /\ [][NextRenderer]_vars

----------------------------------------------------------------------------
(* Properties of the playback state machine *)

\* The manager, for short.
pm == playback_manager

\* The transport fields of the manager.
Transport(p) == <<p.current_index, p.timecode_ms, p.is_playing, p.state>>

\* The persisted record holds the manager's position.
PersistedIsMemory ==
    /\ db.playback_state.current_index = pm.current_index
    /\ db.playback_state.timecode_ms = pm.timecode_ms
    /\ db.playback_state.is_playing = pm.is_playing

\* The handlers of the operations that change the position.
MutatingOps ==
    {"on_timeline_save", "on_control_play", "on_control_pause",
     "on_control_jump", "on_control_skip"}

\* C1: with a non-empty timeline loaded, jump(index) with 0 <= index <
\* len(items) succeeds, leaves current_index = index and timecode_ms = 0,
\* and is_playing is after the call what it was before it.
C1_JumpValidIndex ==
    [][\A sid \in ControlSids, i \in Indices :
         (/\ HasItems(pm)
          /\ 0 <= i /\ i < NumItems(pm)
          /\ on_control_jump(sid, Some(i)))
         => (/\ lastOp'.ret
             /\ pm'.current_index = i
             /\ pm'.timecode_ms = 0
             /\ pm'.is_playing = pm.is_playing)]_vars

\* A jump to the last item of the longest timeline succeeded while playing.
C1_Witness ==
    /\ lastOp = Op("on_control_jump", TRUE)
    /\ pm.is_playing
    /\ HasItems(pm)
    /\ pm.current_index = MaxItems - 1
    /\ pm.timecode_ms = 0

\* C2: play(index) with an index out of range fails and has no effect:
\* current_index, timecode_ms, is_playing, the state label and the
\* persisted record are after the call what they were before it.
C2_PlayOutOfRangeNoEffect ==
    [][\A sid \in ControlSids, i \in Indices :
         (/\ HasItems(pm)
          /\ (i < 0 \/ i >= NumItems(pm))
          /\ on_control_play(sid, Some(i)))
         => (/\ ~lastOp'.ret
             /\ Transport(pm') = Transport(pm)
             /\ db' = db)]_vars

\* C3: whenever a non-empty timeline is loaded 0 <= current_index <
\* len(items), and timecode_ms >= 0 always.
C3_IndexInRange ==
    /\ HasItems(pm)
         => (0 <= pm.current_index /\ pm.current_index < NumItems(pm))
    /\ pm.timecode_ms >= 0

\* C4: with a timeline of at least one item loaded, skip(delta) never fails
\* and leaves current_index within [0, len(items) - 1].
C4_SkipClamps ==
    (lastOp.name = "on_control_skip" /\ HasItems(pm))
    => (/\ lastOp.ret
        /\ 0 <= pm.current_index
        /\ pm.current_index < NumItems(pm))

\* A skip beyond the end was clamped to the last item.
C4_Witness ==
    /\ lastOp = Op("on_control_skip", TRUE)
    /\ HasItems(pm)
    /\ NumItems(pm) = MaxItems
    /\ pm.current_index = MaxItems - 1
    /\ Len(emitted) = 1
    /\ emitted[1].data.delta = MaxItems + 1

\* A step that is no seek: the clock, a publisher tick, a show status
\* message, play() with no index.
NoSeekStep ==
    \/ AdvanceClock
    \/ update_loop
    \/ \E sid \in ShowSids, tc \in Optional(StatusTimecodes) :
           on_show_status(sid, tc)
    \/ \E sid \in ControlSids : on_control_play(sid, None)

\* C5: while is_playing stays true and no seek occurs, the value of
\* get_current_timecode() never decreases.
C5_TimecodeMonotonic ==
    [][(pm.is_playing /\ pm'.is_playing /\ NoSeekStep)
       => get_current_timecode(pm', now') >= get_current_timecode(pm, now)]_vars

\* C6: pause() while playing freezes the live timecode into timecode_ms
\* (initial_offset_ms + now - playback_start_time, truncated), clears
\* is_playing and the start-time anchor and sets the state PAUSED; the
\* timecode read afterwards is that value however far the clock advances.
C6_PauseFreezes ==
    [][/\ \A sid \in ControlSids :
            (pm.is_playing /\ on_control_pause(sid))
            => (/\ pm'.timecode_ms =
                     (IF pm.playback_start_time = None
                      THEN pm.timecode_ms
                      ELSE IntOfTicks(pm.initial_offset_ms * TicksPerMs
                                      + now - Val(pm.playback_start_time)))
                /\ ~pm'.is_playing
                /\ pm'.playback_start_time = None
                /\ pm'.state = "PAUSED"
                /\ get_current_timecode(pm', now') = pm'.timecode_ms)
       /\ (lastOp.name = "on_control_pause" /\ AdvanceClock)
            => get_current_timecode(pm', now') = get_current_timecode(pm, now)
      ]_vars

\* A pause froze a timecode of 1 ms, and is persisted.
C6_Witness ==
    /\ lastOp = Op("on_control_pause", TRUE)
    /\ pm.state = "PAUSED"
    /\ pm.timecode_ms = 1
    /\ pm.initial_offset_ms = 0
    /\ db.playback_state.timecode_ms = 1

\* C7: pause() when not playing leaves every field of the manager and the
\* persisted record unchanged.
C7_PauseIdempotent ==
    [][\A sid \in ControlSids :
         (~pm.is_playing /\ on_control_pause(sid))
         => (pm' = pm /\ db' = db /\ lastOp'.ret)]_vars

\* A pause ran on a timeline that was loaded and never played.
C7_Witness ==
    /\ lastOp = Op("on_control_pause", TRUE)
    /\ pm.state = "LOADING"
    /\ HasItems(pm)

\* C8: play() with no index while already playing succeeds and leaves
\* current_index, timecode_ms, is_playing and the state label unchanged.
C8_PlayWhilePlaying ==
    [][\A sid \in ControlSids :
         (pm.is_playing /\ on_control_play(sid, None))
         => (lastOp'.ret /\ Transport(pm') = Transport(pm))]_vars

\* C9: a publisher tick, which reads the timecode, leaves the manager and
\* the persisted record unchanged.
C9_ReadHasNoEffect ==
    [][(lastOp'.name = "update_loop" /\ now' = now)
       => (pm' = pm /\ db' = db)]_vars

\* A publisher tick emitted a live timecode of 1 ms.
C9_Witness ==
    /\ lastOp = Op("update_loop", TRUE)
    /\ pm.is_playing
    /\ Len(emitted) = 1
    /\ emitted[1].data.timecodeMs = 1
    /\ pm.timecode_ms = 0

\* C10: whenever a mutating operation has returned successfully, the
\* persisted record's current_index, timecode_ms and is_playing are those
\* of the manager.
C10_PersistedAfterSuccess ==
    (lastOp.name \in MutatingOps /\ lastOp.ret) => PersistedIsMemory

\* The step in which the manager is rehydrated from the persisted record:
\* the first handler after a restart.
Rehydrates == ~pm._initialized /\ pm'._initialized

\* C11: a restart lands paused: the rehydrated manager has is_playing false,
\* even when the persisted is_playing was true, and its current_index and
\* timecode_ms are the persisted ones.
C11_RestartLandsPaused ==
    [][Rehydrates
       => (/\ ~pm'.is_playing
           /\ pm'.current_index = db.playback_state.current_index
           /\ pm'.timecode_ms = db.playback_state.timecode_ms)]_vars

\* C12: load_timeline(T) followed at once by a restart and the rehydration
\* from the persisted record yields current_index 0, timecode_ms 0 and
\* is_playing false, with T loaded again.
C12_LoadRestartRoundTrip ==
    [][(lastOp = Op("on_timeline_save", TRUE) /\ Restart)
       => LET p == ensure_initialized(pm', db')
          IN  /\ p._initialized
              /\ p.current_index = 0
              /\ p.timecode_ms = 0
              /\ ~p.is_playing
              /\ p.current_timeline # None
              /\ p.current_timeline = pm.current_timeline]_vars

\* A session connected after a restart and the manager was rehydrated with
\* the longest timeline, at the persisted position 0 and not playing.
C12_Witness ==
    /\ lastOp.name \in {"on_control_connect", "on_show_connect"}
    /\ pm._initialized
    /\ pm.state = "IDLE"
    /\ pm.current_timeline = Some(TimelineDef(MaxItems))
    /\ pm.current_index = 0
    /\ pm.timecode_ms = 0
    /\ ~pm.is_playing
    /\ db.playback_state.timeline_id = Some(1)

\* C13: when at rehydration the persisted record references a timeline that
\* no longer exists, the manager falls back to IDLE: no timeline is loaded,
\* it is not playing, and play, jump and skip fail.
C13_MissingTimelineFallsBack ==
    [][(Rehydrates /\ Dangling(db))
       => (/\ pm'.current_timeline = None
           /\ pm'.state = "IDLE"
           /\ ~pm'.is_playing
           /\ \A i \in Optional(Indices) : ~play(pm', db', i, now').ret
           /\ \A i \in Indices : ~jump(pm', db', i, now').ret
           /\ \A delta \in Deltas : ~skip(pm', db', delta, now').ret)]_vars

\* C14: load_timeline(definition), from any state, makes the definition the
\* in-memory timeline, resets current_index and timecode_ms to 0 and
\* is_playing to false, sets the state LOADING and persists; the timecode
\* read afterwards is 0, and while the state is LOADING (until the next
\* play) the manager is not playing and a publisher tick emits nothing.
C14_LoadTimelineResets ==
    /\ lastOp = Op("on_timeline_save", TRUE)
         => (/\ pm.current_timeline # None
             /\ pm.current_timeline = Some(emitted[1].data.timeline)
             /\ Transport(pm) = <<0, 0, FALSE, "LOADING">>
             /\ PersistedIsMemory
             /\ get_current_timecode(pm, now) = 0)
    /\ pm.state = "LOADING"
         => (/\ ~pm.is_playing
             /\ send_timecode_update(pm, now, connected_clients.show) = <<>>)

\* A timeline was loaded over a playing manager (the anchor of the play is
\* still there) and the clock has advanced since.
C14_Witness ==
    /\ lastOp = Op("on_timeline_save", TRUE)
    /\ pm.playback_start_time = Some(0)
    /\ now = MaxClock
    /\ pm.state = "LOADING"
    /\ connected_clients.show # {}

\* The positions in the emitted messages of those with the given event.
Emitted(event) == {i \in 1..Len(emitted) : emitted[i].event = event}

\* C15: when a session connects on the show channel while a timeline is
\* loaded, that session and no other receives, in the same step, one
\* SHOW_LOAD_TIMELINE message carrying the loaded timeline; when no
\* timeline is loaded the step emits no SHOW_LOAD_TIMELINE.
C15_ConnectGetsTimeline ==
    [][\A sid \in ShowSids :
         on_show_connect(sid)
         => IF pm'.current_timeline # None
            THEN \E i \in 1..Len(emitted') :
                   /\ Emitted("SHOW_LOAD_TIMELINE")' = {i}
                   /\ emitted'[i] =
                        Msg("SHOW_LOAD_TIMELINE",
                            [timeline |-> Val(pm'.current_timeline)],
                            "/show", {sid})
            ELSE Emitted("SHOW_LOAD_TIMELINE")' = {}]_vars

\* A second show session connected and alone received the longest timeline.
C15_Witness ==
    /\ lastOp.name = "on_show_connect"
    /\ connected_clients.show = ShowSids
    /\ Emitted("SHOW_LOAD_TIMELINE") = {2}
    /\ emitted[2].data.timeline = TimelineDef(MaxItems)
    /\ Cardinality(emitted[2].to) = 1

\* C16: on each publisher tick, if is_playing, one live timecode value is
\* computed and one SHOW_SET_TIMECODE carrying it goes to every session
\* connected on the show channel; if not playing the tick sends nothing.
C16_TickBroadcastsLiveTimecode ==
    [][update_loop
       => emitted' =
            (IF pm.is_playing
             THEN << Msg("SHOW_SET_TIMECODE",
                         [timecodeMs |-> get_current_timecode(pm, now)],
                         "/show", connected_clients.show) >>
             ELSE <<>>)]_vars

\* A tick sent the live timecode of 1 ms, computed from the anchor, to both
\* show sessions.
C16_Witness ==
    /\ lastOp.name = "update_loop"
    /\ pm.is_playing
    /\ pm.playback_start_time = Some(0)
    /\ connected_clients.show = ShowSids
    /\ Emitted("SHOW_SET_TIMECODE") = {1}
    /\ emitted[1].to = ShowSids
    /\ emitted[1].data.timecodeMs = 1

\* The transport commands that can fail.
FallibleOps == {"on_control_play", "on_control_jump", "on_control_skip"}

\* C17: a CONTROL_PLAY, CONTROL_JUMP or CONTROL_SKIP whose operation fails
\* produces no message on the show channel.
C17_FailedCommandNoBroadcast ==
    (lastOp.name \in FallibleOps /\ ~lastOp.ret)
    => \A i \in 1..Len(emitted) : emitted[i].namespace # "/show"

\* A play was rejected while show sessions were connected and a timeline
\* with items was loaded.
C17_Witness ==
    /\ lastOp = Op("on_control_play", FALSE)
    /\ HasItems(pm)
    /\ connected_clients.show = ShowSids
    /\ emitted = <<>>

\* C18: for every play, jump or skip command that fails, the control
\* session that sent it receives a failure indication.
C18_FailureSurfacedToSender ==
    (lastOp.name \in FallibleOps /\ ~lastOp.ret)
    => \E i \in 1..Len(emitted) :
         /\ emitted[i].namespace = "/control"
         /\ emitted[i].to # {}
         /\ emitted[i].to \subseteq connected_clients.control

\* C19: every successful transport command results in exactly one message,
\* broadcast to all show sessions: SHOW_PLAY with the manager's resulting
\* current_index, SHOW_JUMP with the index (which a successful jump has
\* made the current_index), SHOW_SKIP with the delta of the command,
\* SHOW_PAUSE for a pause.
C19_SuccessBroadcastsOnce ==
    [][/\ lastOp'.name = "on_control_play" /\ lastOp'.ret
            => emitted' = << Msg("SHOW_PLAY", [index |-> pm'.current_index],
                                 "/show", connected_clients'.show) >>
       /\ lastOp'.name = "on_control_jump" /\ lastOp'.ret
            => emitted' = << Msg("SHOW_JUMP", [index |-> pm'.current_index],
                                 "/show", connected_clients'.show) >>
       /\ lastOp'.name = "on_control_pause"
            => emitted' = << Msg("SHOW_PAUSE", <<>>,
                                 "/show", connected_clients'.show) >>
       /\ lastOp'.name = "on_control_skip" /\ lastOp'.ret /\ now' = now
            => \A sid \in ControlSids, delta \in Deltas :
                 on_control_skip(sid, delta)
                 => emitted' = << Msg("SHOW_SKIP", [delta |-> delta],
                                      "/show", connected_clients.show) >>
      ]_vars

\* A play with no index succeeded at the last item and both show sessions
\* were sent that index.
C19_Witness ==
    /\ lastOp = Op("on_control_play", TRUE)
    /\ pm.current_index = MaxItems - 1
    /\ pm.timecode_ms = 1
    /\ Emitted("SHOW_PLAY") = {1}
    /\ emitted[1].data.index = MaxItems - 1
    /\ emitted[1].to = ShowSids

\* C20: a TIMELINE_SAVE with a definition writes the active timeline record
\* (creating it when there is none), then calls load_timeline (index 0,
\* timecode 0, not playing; the persisted record references the row just
\* written), then emits SHOW_LOAD_TIMELINE with the definition to all show
\* sessions and then TIMELINE_SAVED with success to the sender; after it the
\* active timeline record, the in-memory timeline and the payload are the
\* same definition.
C20_TimelineSave ==
    lastOp = Op("on_timeline_save", TRUE)
    => LET active_timeline == get_active_timeline(db)
       IN  /\ active_timeline # None
           /\ pm.current_timeline # None
           /\ json_loads(db.timelines[Val(active_timeline)].timeline_json)
                = Val(pm.current_timeline)
           /\ Transport(pm) = <<0, 0, FALSE, "LOADING">>
           /\ db.playback_state = [timeline_id   |-> active_timeline,
                                   current_index |-> 0,
                                   timecode_ms   |-> 0,
                                   is_playing    |-> FALSE]
           /\ Len(emitted) = 2
           /\ emitted[1] = Msg("SHOW_LOAD_TIMELINE",
                               [timeline |-> Val(pm.current_timeline)],
                               "/show", connected_clients.show)
           /\ emitted[2].event = "TIMELINE_SAVED"
           /\ emitted[2].data = [success     |-> TRUE,
                                 timeline_id |-> Val(active_timeline)]
           /\ emitted[2].namespace = "/control"
           /\ Cardinality(emitted[2].to) = 1
           /\ emitted[2].to \subseteq connected_clients.control

\* The longest definition was saved as the active record by a manager that
\* had been playing, with both show sessions connected.
C20_Witness ==
    /\ lastOp = Op("on_timeline_save", TRUE)
    /\ Len(db.timelines) = 1
    /\ pm.current_timeline = Some(TimelineDef(MaxItems))
    /\ pm.playback_start_time # None
    /\ connected_clients.show = ShowSids
    /\ emitted[1].to = ShowSids
    /\ emitted[2].data.timeline_id = 1

\* The ids of the timeline rows with is_active true.
ActiveTimelines == {i \in 1..Len(db.timelines) : db.timelines[i].is_active}

\* C21: at most one timeline record is active at any time.
C21_SingleActiveTimeline == Cardinality(ActiveTimelines) <= 1

\* C22: a live-timecode read of the publisher thread never fails, and the
\* value it broadcasts is one that the whole read run at one instant
\* returns: at the instant the read began, or on the fields as they are
\* when it ends.
C22_ConsistentRead ==
    /\ lastOp # Op("update_loop", FALSE)
    /\ AtPc("sent")
         => \/ emitted[1].data.timecodeMs = Val(threads.update_loop.whole_read)
            \/ emitted[1].data.timecodeMs =
                 get_current_timecode(pm, Val(threads.update_loop.now_ms))
            \/ emitted[1].data.timecodeMs = get_current_timecode(pm, now)

\* The manager and the database after skip(first) then skip(second), run
\* one after the other from the loaded start.
Serial(first, second) ==
    LET a == skip(LoadedStart.pm, LoadedStart.db, first, 0)
        b == skip(a.pm, a.db, second, 0)
    IN  <<b.pm, b.db>>

\* C23: when two control connections issue commands at the same time, the
\* resulting manager and persisted record are those of the two operations
\* run one after the other, in one of the two orders.
C23_MutuallyExclusive ==
    (\A sid \in RacingSids : threads.handlers[sid].pc = "done")
    => LET d1 == Val(threads.handlers["c1"].delta)
           d2 == Val(threads.handlers["c2"].delta)
       IN  <<pm, db>> \in {Serial(d1, d2), Serial(d2, d1)}

\* C24: a write that fails during load_timeline, play, pause, jump or skip
\* does not abort the in-memory transition: the manager after the call is
\* the one a call whose writes succeed leaves, also for the jump while
\* playing, which saves twice.
C24_WriteFailureKeepsTransition ==
    [][\A sid \in ControlSids, n \in Saves :
         /\ lastOp'.name = "on_timeline_save raised"
              => \A tl \in TimelineDefs :
                   on_timeline_save_raises(sid, tl, n)
                   => pm' = load_timeline(pm, db, tl).pm
         /\ lastOp'.name = "on_control_play raised"
              => \A i \in Optional(Indices) :
                   on_control_play_raises(sid, i, n)
                   => pm' = play(pm, db, i, now).pm
         /\ lastOp'.name = "on_control_pause raised"
              => (on_control_pause_raises(sid, n)
                  => pm' = pause(pm, db, now).pm)
         /\ lastOp'.name = "on_control_jump raised"
              => \A i \in Indices :
                   on_control_jump_raises(sid, i, n)
                   => pm' = jump(pm, db, i, now).pm
         /\ lastOp'.name = "on_control_skip raised"
              => \A delta \in Deltas :
                   on_control_skip_raises(sid, delta, n)
                   => pm' = skip(pm, db, delta, now).pm]_vars

\* C25: get_current_item() returns the item at current_index when a
\* timeline with items is loaded and 0 <= current_index < len(items), and
\* None in every other reachable state.
C25_CurrentItem ==
    get_current_item(pm) =
        (IF HasItems(pm) /\ 0 <= pm.current_index
                        /\ pm.current_index < NumItems(pm)
         THEN Some(Val(pm.current_timeline).items[pm.current_index + 1])
         ELSE None)

\* C26: jump(index) fails when index is negative or >= len(items) or when no
\* timeline with items is loaded, and the failed jump leaves current_index,
\* timecode_ms, is_playing, playback_start_time, the state label and the
\* persisted record as they were; a playing timeline is not paused.
C26_FailedJumpNoEffect ==
    [][lastOp'.name = "on_control_jump" =>
         \A sid \in ControlSids, i \in Indices :
           (/\ (~HasItems(pm) \/ i < 0 \/ i >= NumItems(pm))
            /\ on_control_jump(sid, Some(i)))
           => (/\ ~lastOp'.ret
               /\ pm' = pm
               /\ db' = db)]_vars

\* A jump was refused while the loaded timeline was playing, and it still is.
C26_Witness ==
    /\ lastOp = Op("on_control_jump", FALSE)
    /\ HasItems(pm)
    /\ pm.is_playing
    /\ pm.state = "PLAYING"
    /\ pm.playback_start_time # None
    /\ db.playback_state.is_playing

\* C27: play fails whenever no timeline is loaded or the loaded timeline has
\* zero items, for every index argument including none; after the failed
\* call is_playing is false and the state label is not PLAYING.
C27_PlayWithoutItemsFails ==
    [][lastOp'.name = "on_control_play" =>
         \A sid \in ControlSids, index \in {None} \cup {Some(i) : i \in Indices} :
           (/\ ~HasItems(pm)
            /\ on_control_play(sid, index))
           => (/\ ~lastOp'.ret
               /\ ~pm'.is_playing
               /\ pm'.state # "PLAYING")]_vars

\* C28: a status message from a show session is advisory only: receiving
\* SHOW_STATUS with a timecodeMs field does not change the value
\* get_current_timecode() returns, nor the persisted record.
C28_StatusIsAdvisory ==
    [][(lastOp'.name = "on_show_status" /\ now' = now) =>
         (/\ get_current_timecode(pm', now') = get_current_timecode(pm, now)
          /\ db' = db)]_vars

\* C29: the registry of each namespace holds exactly the sessions that have
\* connected on it and not yet disconnected: it starts empty (as after a
\* restart), a connect adds the connecting session to its own namespace, a
\* disconnect removes only the disconnecting session from its own namespace
\* and emits nothing, and no other step changes a registry.
C29_RegistryTracksSessions ==
    [][IF now' # now THEN connected_clients' = connected_clients
       ELSE CASE lastOp'.name = "on_control_connect" ->
                   \E sid \in ControlSids \ connected_clients.control :
                     connected_clients' =
                       [connected_clients EXCEPT !.control = @ \cup {sid}]
              [] lastOp'.name = "on_show_connect" ->
                   \E sid \in ShowSids \ connected_clients.show :
                     connected_clients' =
                       [connected_clients EXCEPT !.show = @ \cup {sid}]
              [] lastOp'.name = "on_control_disconnect" ->
                   /\ \E sid \in connected_clients.control :
                        connected_clients' =
                          [connected_clients EXCEPT !.control = @ \ {sid}]
                   /\ emitted' = <<>>
              [] lastOp'.name = "on_show_disconnect" ->
                   /\ \E sid \in connected_clients.show :
                        connected_clients' =
                          [connected_clients EXCEPT !.show = @ \ {sid}]
                   /\ emitted' = <<>>
              [] lastOp'.name = "restart" ->
                   connected_clients' = [control |-> {}, show |-> {}]
              [] OTHER -> connected_clients' = connected_clients]_vars

\* One show session has disconnected while the other show session and a
\* control session stay registered.
C29_Witness ==
    /\ lastOp = Op("on_show_disconnect", TRUE)
    /\ Cardinality(connected_clients.show) = 1
    /\ connected_clients.control # {}
    /\ emitted = <<>>

\* C30: scene-control commands are relayed to the /show namespace without
\* validation or modification: CONTROL_START_SCENE and CONTROL_UPDATE_PARAMS
\* each emit one message with the identical payload, out-of-range parameter
\* values included, CONTROL_STOP_SCENE emits SHOW_STOP_SCENE with an empty
\* payload, and none of them changes the playback state or its record.
C30_SceneRelay ==
    [][(/\ lastOp'.name \in {"handle_control_start_scene",
                             "handle_control_update_params",
                             "handle_control_stop_scene"}
        /\ now' = now) =>
         /\ pm' = pm
         /\ db' = db
         /\ \A sid \in ControlSids :
              /\ \A data \in StartScenePayloads :
                   handle_control_start_scene(sid, data) =>
                     emitted' = << Msg("SHOW_START_SCENE", data, "/show",
                                       connected_clients.show) >>
              /\ \A data \in UpdateParamsPayloads :
                   handle_control_update_params(sid, data) =>
                     emitted' = << Msg("SHOW_UPDATE_PARAMS", data, "/show",
                                       connected_clients.show) >>
              /\ \A data \in Optional(StartScenePayloads) :
                   handle_control_stop_scene(sid, data) =>
                     emitted' = << Msg("SHOW_STOP_SCENE", <<>>, "/show",
                                       connected_clients.show) >>]_vars

\* A start-scene command with out-of-range parameters has been relayed
\* as sent to both show views while the timeline is playing.
C30_Witness ==
    /\ lastOp = Op("handle_control_start_scene", TRUE)
    /\ emitted = << Msg("SHOW_START_SCENE",
                        [sceneId |-> "lissajous",
                         params  |-> [a |-> 100, speed |-> -5]],
                        "/show", ShowSids) >>
    /\ pm.is_playing

\* C31: telemetry of a show view flows back to the /control namespace: a
\* SHOW_FPS_UPDATE is emitted to the connected control sessions with its
\* payload unchanged, and an ERROR report is broadcast to the control
\* sessions as SHOW_ERROR with the same payload.
C31_TelemetryRelay ==
    [][lastOp'.name \in {"handle_show_fps_update", "on_show_error"} =>
         \A sid \in ShowSids :
           /\ \A data \in FpsPayloads :
                handle_show_fps_update(sid, data) =>
                  emitted' = << Msg("SHOW_FPS_UPDATE", data, "/control",
                                    connected_clients.control) >>
           /\ \A data \in ErrorPayloads :
                on_show_error(sid, data) =>
                  emitted' = << Msg("SHOW_ERROR", data, "/control",
                                    connected_clients.control) >>]_vars

\* An error report of a show view has reached the connected operator UI.
C31_Witness ==
    /\ lastOp = Op("on_show_error", TRUE)
    /\ emitted = << Msg("SHOW_ERROR", [message |-> "asset failed"],
                        "/control", ControlSids) >>

\* What a show view receives for a command that succeeds.
Relayed(cmd) ==
    [event |-> IF cmd.event = "CONTROL_JUMP" THEN "SHOW_JUMP"
               ELSE "SHOW_UPDATE_PARAMS",
     value |-> cmd.value]

\* C32: the commands of one control connection are processed in the order
\* of receipt: once every command received is processed, the show views
\* have received the messages of the commands in the order the commands
\* were sent, and current_index is the index of the last jump sent.
C32_ReceiptOrder ==
    threads.running = {} =>
      /\ threads.delivered =
           [k \in DOMAIN threads.received |-> Relayed(threads.received[k])]
      /\ \A k \in DOMAIN threads.received :
           (/\ threads.received[k].event = "CONTROL_JUMP"
            /\ \A l \in DOMAIN threads.received :
                 l > k => threads.received[l].event # "CONTROL_JUMP")
           => pm.current_index = threads.received[k].value

\* C33: a successful jump resets the position within the item and ends
\* persisted.  If it was playing, the manager is PLAYING afterwards with
\* initial_offset_ms = 0 and playback_start_time at the time of the jump, so
\* the live timecode is 0 at that moment; if it was not playing, the state
\* label is LOADING afterwards; in both cases the persisted record holds the
\* new index and timecode 0.
C33_JumpResetsAndPersists ==
    [][(lastOp' = Op("on_control_jump", TRUE) /\ now' = now) =>
         /\ pm'.current_index = emitted'[1].data.index
         /\ pm'.timecode_ms = 0
         /\ db'.playback_state.current_index = pm'.current_index
         /\ db'.playback_state.timecode_ms = 0
         /\ IF pm.is_playing
            THEN /\ pm'.is_playing
                 /\ pm'.state = "PLAYING"
                 /\ pm'.initial_offset_ms = 0
                 /\ pm'.playback_start_time = Some(now)
                 /\ get_current_timecode(pm', now') = 0
            ELSE /\ ~pm'.is_playing
                 /\ pm'.state = "LOADING"]_vars

\* A jump to the last item while paused, after the clock has moved, is in
\* the persisted record.
C33_Witness ==
    /\ lastOp = Op("on_control_jump", TRUE)
    /\ ~pm.is_playing
    /\ pm.state = "LOADING"
    /\ now > 0
    /\ MaxItems > 1
    /\ pm.current_index = MaxItems - 1
    /\ db.playback_state.current_index = MaxItems - 1
    /\ db.playback_state.timecode_ms = 0

\* C34: with a non-empty timeline loaded, skip(delta) has the result and the
\* final state of jump(min(max(current_index + delta, 0), len(items) - 1)),
\* for every delta; a skip whose clamped target is the current index still
\* resets timecode_ms to 0.
C34_SkipIsClampedJump ==
    [][(lastOp'.name = "on_control_skip" /\ now' = now) =>
         \A sid \in ControlSids, delta \in Deltas :
           (/\ HasItems(pm)
            /\ on_control_skip(sid, delta))
           => LET sum     == pm.current_index + delta
                  low     == IF sum > 0 THEN sum ELSE 0
                  target  == IF low < NumItems(pm) - 1 THEN low
                             ELSE NumItems(pm) - 1
                  r       == jump(pm, db, target, now)
              IN  /\ lastOp'.ret = r.ret
                  /\ pm' = r.pm
                  /\ db' = r.db
                  /\ pm'.current_index = target
                  /\ pm'.timecode_ms = 0]_vars

\* A skip has ended on the first item while playing, with the live timecode
\* counting from the moment of the skip.
C34_Witness ==
    /\ lastOp = Op("on_control_skip", TRUE)
    /\ pm.is_playing
    /\ pm.current_index = 0
    /\ NumItems(pm) = MaxItems
    /\ now > 0
    /\ pm.playback_start_time = Some(now)
    /\ pm.timecode_ms = 0

\* C35: the timecode publisher runs for the life of the process: with the
\* thread scheduled fairly, if playback is playing from some time on, then
\* SHOW_SET_TIMECODE is emitted again and again; a TypeError raised in one
\* tick does not end the ticks.
C35_PublisherKeepsBroadcasting ==
    <>[](pm._initialized /\ pm.is_playing) => []<><<PublisherBroadcast>>_vars

\* A tick of the publisher has broadcast the live timecode while playing.
C35_Witness ==
    /\ AtPc("sent")
    /\ pm.is_playing
    /\ lastOp = Op("update_loop", TRUE)
    /\ Emitted("SHOW_SET_TIMECODE") # {}

\* C36: in every reachable state, right after rehydration included, the
\* transport fields are consistent: is_playing is true exactly when the
\* state label is PLAYING, and is_playing implies that a timeline with at
\* least one item is loaded and that playback_start_time is set.
C36_TransportConsistent ==
    /\ pm.is_playing <=> pm.state = "PLAYING"
    /\ pm.is_playing => (HasItems(pm) /\ pm.playback_start_time # None)

\* The index a show view holds after the messages msgs, when it held index
\* before them and its timeline has n items: SHOW_LOAD_TIMELINE resets it to
\* 0, SHOW_PLAY and SHOW_JUMP set it, SHOW_SKIP adds the delta and clamps.
RendererIndex(index, msgs, n) ==
    LET at(event) == {i \in DOMAIN msgs : /\ msgs[i].event = event
                                         /\ msgs[i].namespace = "/show"}
        data(event) == msgs[CHOOSE i \in at(event) : TRUE].data
    IN  IF at("SHOW_LOAD_TIMELINE") # {} THEN 0
        ELSE IF at("SHOW_PLAY") # {} THEN data("SHOW_PLAY").index
        ELSE IF at("SHOW_JUMP") # {} THEN data("SHOW_JUMP").index
        ELSE IF at("SHOW_SKIP") # {}
        THEN LET sum == index + data("SHOW_SKIP").delta
             IN  IF sum < 0 THEN 0 ELSE IF sum >= n THEN n - 1 ELSE sum
        ELSE index

\* C37: a show view connected from the start that tracks its position from
\* the broadcasts alone holds the server's current_index after every control
\* command, rejected commands included: each command takes a view that
\* holds the server's index to the server's new index.
C37_RendererTracksIndex ==
    [][(lastOp'.name \in MutatingOps /\ now' = now) =>
         RendererIndex(pm.current_index, emitted',
                       IF HasItems(pm') THEN NumItems(pm') ELSE 0)
           = pm'.current_index]_vars

\* C38: the timeline id in the persisted record identifies the timeline
\* loaded in memory, whatever activations happen in between.  The record
\* gets the id of the loaded timeline when the timeline is loaded or
\* rehydrated; a transport command does not load a timeline, so with a
\* timeline loaded it leaves the persisted timeline id as it is.
C38_PersistedTimelineIsLoaded ==
    [][(/\ lastOp'.name \in MutatingOps \ {"on_timeline_save"}
        /\ now' = now
        /\ pm.current_timeline # None) =>
         db'.playback_state.timeline_id = db.playback_state.timeline_id]_vars

\* C39: when TIMELINE_SAVE is answered with an error to the sender, nothing
\* else has happened: the timeline rows, the manager and the persisted
\* record are unchanged and no SHOW_LOAD_TIMELINE was emitted.
C39_FailedSaveNoEffect ==
    [][(/\ now' = now
        /\ lastOp'.name \in {"on_timeline_save", "on_timeline_save raised"}
        /\ ~lastOp'.ret) =>
         /\ pm' = pm
         /\ db' = db
         /\ \A i \in DOMAIN emitted' :
              emitted'[i].event # "SHOW_LOAD_TIMELINE"]_vars

\* The handlers of the messages a show view sends.
ShowOps ==
    {"on_show_connect", "on_show_disconnect", "on_show_ping", "on_show_pong",
     "on_show_status", "on_show_load_timeline", "on_show_play",
     "on_show_pause", "on_asset_preload_done", "on_show_error",
     "handle_show_fps_update"}

\* C40: the show channel cannot drive the transport: no message of a show
\* session changes current_index, is_playing, the state label, the loaded
\* timeline or the persisted record, and none of them makes the server send
\* a message to another show session.
C40_ShowCannotDrive ==
    [][lastOp'.name \in ShowOps =>
         /\ pm'.current_index = pm.current_index
         /\ pm'.is_playing = pm.is_playing
         /\ pm'.state = pm.state
         /\ pm'.current_timeline = pm.current_timeline
         /\ db' = db
         /\ \E sid \in ShowSids :
              \A i \in DOMAIN emitted' :
                emitted'[i].namespace = "/show" => emitted'[i].to = {sid}]_vars

====
